---- MODULE Spec2Model ----
(***************************************************************************)
(* Tic-Tac-Toe with local and online play (src/src/App.tsx) and the        *)
(* game_rooms table with its row-level-security policies                   *)
(* (src/supabase/migrations/20250124094337_summer_castle.sql).             *)
(*                                                                         *)
(* Every browser running App is a client.  A client's React state is one   *)
(* entry of the per-client variables.  An async handler is split at its    *)
(* await on the room store: the click (everything up to the request being  *)
(* sent) and the answer (the store's atomic handling of the request        *)
(* followed by the handler's continuation, which reads nothing but the     *)
(* answer and the client's own onlineGame).  Requests of one client are    *)
(* independent HTTP calls, so the store may handle them in any order.      *)
(***************************************************************************)
EXTENDS Integers, Sequences, FiniteSets, TLC

VARIABLES
    gameMode,       \* [client -> "null" | "local" | "online"]          App.tsx:35
    board,          \* [client -> Board]                                App.tsx:32
    currentPlayer,  \* [client -> "X" | "O"]                            App.tsx:33
    winner,         \* [client -> "X" | "O" | "Draw" | "null"]          App.tsx:34
    moveCount,      \* [client -> Nat]                                  App.tsx:44
    players,        \* [client -> [X |-> score, O |-> score]]           App.tsx:36
    gameHistory,    \* [client -> Seq of winners]                       App.tsx:40
    onlineGame,     \* [client -> OnlineGameState]                      App.tsx:45
    joinCode,       \* [client -> string]                               App.tsx:46
    authUid,        \* [client -> uid of the client's auth session, 0 = none]
    calls,          \* [client -> Seq of room-store calls being awaited]
    rooms,          \* the game_rooms table: [code -> row]
    users           \* [client -> number of identities signUp has given it]

vars == <<gameMode, board, currentPlayer, winner, moveCount, players,
          gameHistory, onlineGame, joinCode, authUid, calls, rooms, users>>

local == <<board, currentPlayer, winner, moveCount, players, gameHistory>>

-----------------------------------------------------------------------------
(* Bounds of the exploration *)

\* createRoom and joinRoom calls one client may have in flight at once
MaxPending == 1
\* move and reset writes one client may have in flight at once
MaxWrites == 2
\* finished games one client may record (caps gameHistory and the scores)
MaxHistory == 2
\* moves a session that receives updates may count before a New Game (an
\* update hands the turn back without clearing moveCount)
MaxMoves == 2

Clients == {"p1", "p2", "p3"}

\* in the online protocol p1 is the user who presses Create Room, p2 and p3
\* are the users who type a code and press Join Room
Hosts == {"p1"}
Guests == {"p2", "p3"}

\* the values nanoid(6).toUpperCase() may return (App.tsx:88)
Codes == {"AB12CD"}

Null == "null"

\* auth.uid() of a request without a session, and a NULL host_id or guest_id
NoUser == <<>>

\* the k-th identity signUp gives client c: a fresh id each time
\* (email `${nanoid()}@temp.com`)
Uid(c, k) == <<c, k>>

-----------------------------------------------------------------------------
(* Types of App.tsx *)

Player == {"X", "O"}

Cells == 0 .. 8

EmptyBoard == [i \in Cells |-> Null]

\* every value of type Board with 9 cells
Boards == [Cells -> Player \cup {Null}]

\* onlineGame === null.  Optional chaining (onlineGame?.x) reads every field
\* of it as undefined, which is falsy: the fields below are the falsy values.
NullGame ==
    [isNull |-> TRUE, roomCode |-> Null, isHost |-> FALSE, connected |-> FALSE,
     playerId |-> NoUser, errorMessage |-> Null]

winningCombinations ==
    << <<0, 1, 2>>, <<3, 4, 5>>, <<6, 7, 8>>,
       <<0, 3, 6>>, <<1, 4, 7>>, <<2, 5, 8>>,
       <<0, 4, 8>>, <<2, 4, 6>> >>

\* String.prototype.toUpperCase on the texts of this model
toUpperCase(s) ==
    CASE s = "ab12cd" -> "AB12CD"
      [] OTHER -> s

toLowerCase(s) ==
    CASE s = "AB12CD" -> "ab12cd"
      [] OTHER -> s

-----------------------------------------------------------------------------
(* Game rules *)

LineWon(squares, k) ==
    LET a == winningCombinations[k][1]
        b == winningCombinations[k][2]
        c == winningCombinations[k][3]
    IN  /\ squares[a] # Null
        /\ squares[a] = squares[b]
        /\ squares[a] = squares[c]

\* a faulty variant: the diagonals are not looked at
checkWinnerNoDiagonals(squares) ==
    LET won == {k \in 1 .. 6 : LineWon(squares, k)}
    IN  IF won # {}
        THEN LET first == CHOOSE k \in won : \A j \in won : k <= j
             IN  squares[winningCombinations[first][1]]
        ELSE IF \A i \in Cells : squares[i] # Null
        THEN "Draw"
        ELSE Null

\* a faulty variant: a full board is a draw before the lines are looked at
checkWinnerDrawFirst(squares) ==
    LET won == {k \in DOMAIN winningCombinations : LineWon(squares, k)}
    IN  IF \A i \in Cells : squares[i] # Null
        THEN "Draw"
        ELSE IF won # {}
        THEN LET first == CHOOSE k \in won : \A j \in won : k <= j
             IN  squares[winningCombinations[first][1]]
        ELSE Null

\* a faulty variant: a full board without a line is not told from an open one
checkWinnerNoDraw(squares) ==
    LET won == {k \in DOMAIN winningCombinations : LineWon(squares, k)}
    IN  IF won # {}
        THEN LET first == CHOOSE k \in won : \A j \in won : k <= j
             IN  squares[winningCombinations[first][1]]
        ELSE Null

\* the first combination, in the order of winningCombinations, that is won
checkWinner(squares) ==
    LET won == {k \in DOMAIN winningCombinations : LineWon(squares, k)}
    IN  IF won # {}
        THEN LET first == CHOOSE k \in won : \A j \in won : k <= j
             IN  squares[winningCombinations[first][1]]
        ELSE IF \A i \in Cells : squares[i] # Null
        THEN "Draw"
        ELSE Null

\* a faulty variant: the turn stays with the mark that moved
nextPlayerSame(p) == p

nextPlayer(p) == IF p = "X" THEN "O" ELSE "X"

-----------------------------------------------------------------------------
(* The game_rooms table and its policies (the migration) *)

\* a faulty variant: a new row starts as playing
NewRowPlaying(values) ==
    [host_id |-> values.host_id, guest_id |-> NoUser, board |-> values.board,
     current_player |-> values.current_player, winner |-> Null,
     status |-> "playing"]

\* CREATE TABLE game_rooms: the columns an INSERT of createRoom does not give
\* take their DEFAULT (guest_id NULL, winner NULL, status 'waiting')
NewRow(values) ==
    [host_id |-> values.host_id, guest_id |-> NoUser, board |-> values.board,
     current_player |-> values.current_player, winner |-> Null,
     status |-> "waiting"]

\* every policy is TO authenticated
Authenticated(uid) == uid # NoUser

\* "Anyone can create a room": FOR INSERT WITH CHECK (true)
AnyoneCanCreate(uid, row) == Authenticated(uid)

\* "Players can view their rooms": FOR SELECT USING (...)
PlayersCanView(uid, row) ==
    /\ Authenticated(uid)
    /\ \/ uid = row.host_id
       \/ uid = row.guest_id
       \/ (row.guest_id = NoUser /\ row.status = "waiting")

\* a faulty variant: the update policy lets every authenticated caller through
AnyoneCanUpdate(uid, row) == Authenticated(uid)

\* "Players can update their rooms": FOR UPDATE USING (...) WITH CHECK (...),
\* the same expression for the row as it is and for the row as it would be
PlayersCanUpdate(uid, row) ==
    /\ Authenticated(uid)
    /\ \/ uid = row.host_id
       \/ uid = row.guest_id

\* UPDATE ... SET patch: the columns of the patch replace the row's
ApplyPatch(row, patch) ==
    [col \in DOMAIN row |-> IF col \in DOMAIN patch THEN patch[col] ELSE row[col]]

\* a faulty variant: the code alone picks the row, without the filters of
\* joinRoom and without the policies
MatchesByCode(call) == call.code \in DOMAIN rooms

\* the rows an UPDATE of this call touches: .eq('code', ...), for joinRoom
\* also .eq('status','waiting').is('guest_id', null), and the rows the
\* policies let the caller see and update
Matches(call) ==
    /\ call.code \in DOMAIN rooms
    /\ LET row == rooms[call.code]
       IN  /\ call.waitingOnly => (row.status = "waiting" /\ row.guest_id = NoUser)
           /\ PlayersCanView(call.uid, row)
           /\ PlayersCanUpdate(call.uid, row)

\* the error of an INSERT: the policy, then the UNIQUE constraint on code
InsertError(call) ==
    IF ~AnyoneCanCreate(call.uid, NewRow(call.patch)) THEN "42501"
    ELSE IF call.code \in DOMAIN rooms THEN "23505"
    ELSE Null

\* the error of an UPDATE.  A row the filters or the USING policy leave out is
\* not touched, which is an error only under .single(); a new row that fails
\* WITH CHECK aborts the statement.
UpdateError(call) ==
    IF ~Matches(call) THEN (IF call.single THEN "PGRST116" ELSE Null)
    ELSE IF ~PlayersCanUpdate(call.uid, ApplyPatch(rooms[call.code], call.patch))
    THEN "42501"
    ELSE Null

\* the table after the store has handled the call
Handled(call) ==
    IF call.kind = "create"
    THEN IF InsertError(call) = Null
         THEN rooms @@ (call.code :> NewRow(call.patch))
         ELSE rooms
    ELSE IF Matches(call) /\ UpdateError(call) = Null
         THEN [rooms EXCEPT ![call.code] = ApplyPatch(@, call.patch)]
         ELSE rooms

\* the error the awaiting handler gets.  reachable: whether the request and
\* its answer get through.
ErrorOf(call, reachable) ==
    IF ~reachable THEN "unavailable"
    ELSE IF call.kind = "create" THEN InsertError(call)
    ELSE UpdateError(call)

-----------------------------------------------------------------------------
(* Rendering: which handlers a user can reach (App.tsx:665-669, 306) *)

\* renderOnlineSetup is shown
SetupView(c) ==
    /\ gameMode[c] = "online"
    /\ (onlineGame[c].isNull \/ ~onlineGame[c].connected)

\* renderGame is shown: the board, New Game and Reset Scores
GameView(c) == gameMode[c] # Null /\ ~SetupView(c)

\* the Create Room and Join Room buttons and the code input are rendered
SetupButtons(c) == SetupView(c) /\ onlineGame[c].isNull

\* a code a user can read off a host's screen (Room Info, App.tsx:485)
Displayed(code) ==
    \E h \in Clients : GameView(h) /\ gameMode[h] = "online"
                         /\ onlineGame[h].roomCode = code

\* the mark of an online session (App.tsx:174)
Mark(c) == IF onlineGame[c].isHost THEN "X" ELSE "O"

RemoveAt(seq, i) == SubSeq(seq, 1, i - 1) \o SubSeq(seq, i + 1, Len(seq))

-----------------------------------------------------------------------------
Init ==
    /\ gameMode = [c \in Clients |-> Null]
    /\ board = [c \in Clients |-> EmptyBoard]
    /\ currentPlayer = [c \in Clients |-> "X"]
    /\ winner = [c \in Clients |-> Null]
    /\ moveCount = [c \in Clients |-> 0]
    /\ players = [c \in Clients |-> [X |-> 0, O |-> 0]]
    /\ gameHistory = [c \in Clients |-> <<>>]
    /\ onlineGame = [c \in Clients |-> NullGame]
    /\ joinCode = [c \in Clients |-> ""]
    /\ authUid = [c \in Clients |-> NoUser]
    /\ calls = [c \in Clients |-> <<>>]
    /\ rooms = <<>>
    /\ users = [c \in Clients |-> 0]

\* onClick={() => setGameMode('local' | 'online')}, rendered while gameMode is null
SetGameMode(c, mode) ==
    /\ gameMode[c] = Null
    /\ gameMode' = [gameMode EXCEPT ![c] = mode]
    /\ UNCHANGED <<local, onlineGame, joinCode, authUid, calls, rooms, users>>

\* onChange={(e) => setJoinCode(e.target.value.toUpperCase())}
SetJoinCode(c, text) ==
    /\ SetupButtons(c)
    /\ joinCode' = [joinCode EXCEPT ![c] = toUpperCase(text)]
    /\ UNCHANGED <<gameMode, local, onlineGame, authUid, calls, rooms, users>>

-----------------------------------------------------------------------------
(* createRoom and joinRoom *)

\* the request of one awaited room-store call; uid is auth.uid() of the request
Call(kind, code, uid, patch, waitingOnly, single) ==
    [kind |-> kind, code |-> code, uid |-> uid, patch |-> patch,
     waitingOnly |-> waitingOnly, single |-> single]

\* catch: setOnlineGame(prev => ({ ...prev!, errorMessage }))
Failed(prev, message) ==
    [prev EXCEPT !.isNull = FALSE, !.errorMessage = message]

\* setOnlineGame({ roomCode, isHost, connected: true, playerId, errorMessage: null })
Connected(roomCode, isHost, uid) ==
    [isNull |-> FALSE, roomCode |-> roomCode, isHost |-> isHost,
     connected |-> TRUE, playerId |-> uid, errorMessage |-> Null]

\* createRoom up to its await of the insert.  user: whether signUp returned a
\* user.  The row carries the board and the turn of the render that was
\* clicked.
CreateRoom(c, user, roomCode) ==
    /\ SetupButtons(c)
    /\ IF user
       THEN /\ Len(calls[c]) < MaxPending
            /\ users' = [users EXCEPT ![c] = @ + 1]
            /\ authUid' = [authUid EXCEPT ![c] = Uid(c, users[c] + 1)]
            /\ calls' = [calls EXCEPT ![c] = Append(@,
                   Call("create", roomCode, Uid(c, users[c] + 1),
                        [host_id |-> Uid(c, users[c] + 1), board |-> board[c],
                         current_player |-> currentPlayer[c]],
                        FALSE, TRUE))]
            /\ UNCHANGED onlineGame
       ELSE /\ onlineGame' = [onlineGame EXCEPT ![c] =
                   Failed(@, "Failed to create room")]
            /\ UNCHANGED <<users, authUid, calls>>
    /\ UNCHANGED <<gameMode, local, joinCode, rooms>>

\* the insert is handled and createRoom continues:
\* if (error) throw error; setOnlineGame(...)
CreateRoomDone(c, i, reachable) ==
    /\ i \in DOMAIN calls[c]
    /\ LET call == calls[c][i]
       IN  /\ call.kind = "create"
           /\ rooms' = IF reachable THEN Handled(call) ELSE rooms
           /\ onlineGame' = [onlineGame EXCEPT ![c] =
                  IF ErrorOf(call, reachable) = Null
                  THEN Connected(call.code, TRUE, call.uid)
                  ELSE Failed(@, "Failed to create room")]
    /\ calls' = [calls EXCEPT ![c] = RemoveAt(@, i)]
    /\ UNCHANGED <<gameMode, local, joinCode, authUid, users>>

\* joinRoom up to its await of the conditional update
JoinRoom(c, user) ==
    /\ SetupButtons(c)
    /\ joinCode[c] # ""
    /\ IF user
       THEN /\ Len(calls[c]) < MaxPending
            /\ users' = [users EXCEPT ![c] = @ + 1]
            /\ authUid' = [authUid EXCEPT ![c] = Uid(c, users[c] + 1)]
            /\ calls' = [calls EXCEPT ![c] = Append(@,
                   Call("join", toUpperCase(joinCode[c]), Uid(c, users[c] + 1),
                        [guest_id |-> Uid(c, users[c] + 1), status |-> "playing"],
                        TRUE, TRUE))]
            /\ UNCHANGED onlineGame
       ELSE /\ onlineGame' = [onlineGame EXCEPT ![c] =
                   Failed(@, "Failed to join room")]
            /\ UNCHANGED <<users, authUid, calls>>
    /\ UNCHANGED <<gameMode, local, joinCode, rooms>>

\* the conditional update is handled and joinRoom continues:
\* if (error || !room) throw ...; setOnlineGame(...)
JoinRoomDone(c, i, reachable) ==
    /\ i \in DOMAIN calls[c]
    /\ LET call == calls[c][i]
       IN  /\ call.kind = "join"
           /\ rooms' = IF reachable THEN Handled(call) ELSE rooms
           /\ onlineGame' = [onlineGame EXCEPT ![c] =
                  IF ErrorOf(call, reachable) = Null
                  THEN Connected(call.code, FALSE, call.uid)
                  ELSE Failed(@, "Failed to join room")]
    /\ calls' = [calls EXCEPT ![c] = RemoveAt(@, i)]
    /\ UNCHANGED <<gameMode, local, joinCode, authUid, users>>

-----------------------------------------------------------------------------
(* handleClick, resetGame, resetScores *)

\* a faulty variant: the turn is not checked
ClickAllowedAnyTurn(c, index) ==
    /\ board[c][index] = Null
    /\ winner[c] = Null
    /\ ~(gameMode[c] = "online" /\ ~onlineGame[c].connected)

\* a faulty variant: a taken cell is not refused
ClickAllowedOnTaken(c, index) ==
    /\ winner[c] = Null
    /\ ~(gameMode[c] = "online" /\ ~onlineGame[c].connected)
    /\ ~(gameMode[c] = "online" /\ currentPlayer[c] # Mark(c))

\* a faulty variant: a game that is over is not closed to moves
ClickAllowedAfterEnd(c, index) ==
    /\ board[c][index] = Null
    /\ ~(gameMode[c] = "online" /\ ~onlineGame[c].connected)
    /\ ~(gameMode[c] = "online" /\ currentPlayer[c] # Mark(c))

\* the early returns of handleClick (App.tsx:171-174)
ClickAllowed(c, index) ==
    /\ board[c][index] = Null
    /\ winner[c] = Null
    /\ ~(gameMode[c] = "online" /\ ~onlineGame[c].connected)
    /\ ~(gameMode[c] = "online" /\ currentPlayer[c] # Mark(c))

\* the columns handleClick writes: a move that ends the game (App.tsx:212-216)
\* or one that passes the turn (App.tsx:226-229)
MovePatch(newBoard, newWinner, next) ==
    IF newWinner # Null
    THEN [board |-> newBoard, winner |-> newWinner, status |-> "finished"]
    ELSE [board |-> newBoard, current_player |-> next]

\* a faulty variant: the reset leaves the room finished
ResetPatchFinished ==
    [board |-> EmptyBoard, current_player |-> "X", winner |-> Null,
     status |-> "finished"]

\* a faulty variant: the reset does not write the turn
ResetPatchNoTurn ==
    [board |-> EmptyBoard, winner |-> Null, status |-> "playing"]

\* the columns resetGame writes (App.tsx:244-249)
ResetPatch ==
    [board |-> EmptyBoard, current_player |-> "X", winner |-> Null,
     status |-> "playing"]

\* gameMode === 'online' && onlineGame?.roomCode
WritesRoom(c) == gameMode[c] = "online" /\ onlineGame[c].roomCode # Null

\* a faulty variant: a draw is scored for X
ScoredDraw(scores, newWinner) ==
    IF newWinner \in Player
    THEN [scores EXCEPT ![newWinner] = @ + 1]
    ELSE [scores EXCEPT !["X"] = @ + 1]

\* setPlayers(prev => ...score + 1) for a win, nothing for a draw
Scored(scores, newWinner) ==
    IF newWinner \in Player
    THEN [scores EXCEPT ![newWinner] = @ + 1]
    ELSE scores

\* handleClick up to its await of the update
HandleClick(c, index) ==
    /\ GameView(c)
    /\ Len(gameHistory[c]) < MaxHistory
    /\ WritesRoom(c) => Len(calls[c]) < MaxWrites
    /\ IF ~ClickAllowed(c, index)
       THEN UNCHANGED <<local, calls>>
       ELSE LET newBoard == [board[c] EXCEPT ![index] = currentPlayer[c]]
                newWinner == checkWinner(newBoard)
                next == nextPlayer(currentPlayer[c])
            IN  /\ board' = [board EXCEPT ![c] = newBoard]
                /\ moveCount' = [moveCount EXCEPT ![c] = @ + 1]
                /\ IF newWinner # Null
                   THEN /\ winner' = [winner EXCEPT ![c] = newWinner]
                        /\ players' = [players EXCEPT ![c] = Scored(@, newWinner)]
                        /\ gameHistory' = [gameHistory EXCEPT ![c] = Append(@, newWinner)]
                        /\ UNCHANGED currentPlayer
                   ELSE /\ currentPlayer' = [currentPlayer EXCEPT ![c] = next]
                        /\ UNCHANGED <<winner, players, gameHistory>>
                /\ IF WritesRoom(c)
                   THEN calls' = [calls EXCEPT ![c] = Append(@,
                            Call("move", onlineGame[c].roomCode, authUid[c],
                                 MovePatch(newBoard, newWinner, next), FALSE, FALSE))]
                   ELSE UNCHANGED calls
    /\ UNCHANGED <<gameMode, onlineGame, joinCode, authUid, rooms, users>>

\* resetGame up to its await of the update
ResetGame(c) ==
    /\ GameView(c)
    /\ WritesRoom(c) => Len(calls[c]) < MaxWrites
    /\ board' = [board EXCEPT ![c] = EmptyBoard]
    /\ currentPlayer' = [currentPlayer EXCEPT ![c] = "X"]
    /\ winner' = [winner EXCEPT ![c] = Null]
    /\ moveCount' = [moveCount EXCEPT ![c] = 0]
    /\ IF WritesRoom(c)
       THEN calls' = [calls EXCEPT ![c] = Append(@,
                Call("reset", onlineGame[c].roomCode, authUid[c], ResetPatch,
                     FALSE, FALSE))]
       ELSE UNCHANGED calls
    /\ UNCHANGED <<gameMode, players, gameHistory, onlineGame, joinCode,
                   authUid, rooms, users>>

\* the update of handleClick or resetGame is handled and the handler ends:
\* the answer { error } of the await is not read
UpdateDone(c, i, reachable) ==
    /\ i \in DOMAIN calls[c]
    /\ calls[c][i].kind \in {"move", "reset"}
    /\ rooms' = IF reachable THEN Handled(calls[c][i]) ELSE rooms
    /\ calls' = [calls EXCEPT ![c] = RemoveAt(@, i)]
    /\ UNCHANGED <<gameMode, local, onlineGame, joinCode, authUid, users>>

resetScores(c) ==
    /\ GameView(c)
    /\ players' = [players EXCEPT ![c] = [X |-> 0, O |-> 0]]
    /\ gameHistory' = [gameHistory EXCEPT ![c] = <<>>]
    /\ UNCHANGED <<gameMode, board, currentPlayer, winner, moveCount, onlineGame,
                   joinCode, authUid, calls, rooms, users>>

\* a faulty variant: the payload's marks are merged into the local board
game_updateMerge(c, payload) ==
    /\ gameMode[c] = "online"
    /\ onlineGame[c].roomCode # Null
    /\ board' = [board EXCEPT ![c] =
                    [i \in Cells |-> IF payload.board[i] # Null
                                     THEN payload.board[i] ELSE board[c][i]]]
    /\ currentPlayer' = [currentPlayer EXCEPT ![c] = payload.currentPlayer]
    /\ winner' = [winner EXCEPT ![c] = payload.winner]
    /\ UNCHANGED <<gameMode, moveCount, players, gameHistory, onlineGame,
                   joinCode, authUid, calls, rooms, users>>

\* the 'game_update' broadcast handler of the room channel (App.tsx:66-70).
\* Nothing in the program sends on the channel (no channel.send, no
\* postgres_changes subscription), so no action of the program delivers a
\* payload to it.
game_update(c, payload) ==
    /\ gameMode[c] = "online"
    /\ onlineGame[c].roomCode # Null
    /\ board' = [board EXCEPT ![c] = payload.board]
    /\ currentPlayer' = [currentPlayer EXCEPT ![c] = payload.currentPlayer]
    /\ winner' = [winner EXCEPT ![c] = payload.winner]
    /\ UNCHANGED <<gameMode, moveCount, players, gameHistory, onlineGame,
                   joinCode, authUid, calls, rooms, users>>

-----------------------------------------------------------------------------
(* Specifications *)

Slots == 1 .. (IF MaxPending > MaxWrites THEN MaxPending ELSE MaxWrites)

\* what is typed into the code input: a code read off a host's screen, in
\* upper or in lower case
Typed == {t \in Codes \cup {toLowerCase(k) : k \in Codes} : Displayed(toUpperCase(t))}

\* the cells clicked in online play
OnlineCells == {0, 4}

\* the online protocol: every client plays online; the identity service and
\* the store may fail; a session clicks with fewer than MaxPending calls in
\* flight
Next ==
    \E c \in Clients :
        \/ SetGameMode(c, "online")
        \/ \E t \in Typed : c \in Guests /\ SetJoinCode(c, t)
        \/ \E user \in BOOLEAN, code \in Codes : c \in Hosts /\ CreateRoom(c, user, code)
        \/ \E user \in BOOLEAN : c \in Guests /\ JoinRoom(c, user)
        \/ \E index \in OnlineCells : Len(calls[c]) < MaxPending /\ HandleClick(c, index)
        \/ Len(calls[c]) < MaxPending /\ ResetGame(c)
        \/ resetScores(c)
        \/ \E i \in Slots, reachable \in BOOLEAN :
              \/ CreateRoomDone(c, i, reachable)
              \/ JoinRoomDone(c, i, reachable)
              \/ UpdateDone(c, i, reachable)

Spec == Init /\ [][Next]_vars

\* the same protocol with the identity service and the store always
\* reachable, and up to MaxWrites writes of a session in flight
NextUp ==
    \E c \in Clients :
        \/ SetGameMode(c, "online")
        \/ \E t \in Typed : c \in Guests /\ SetJoinCode(c, t)
        \/ \E code \in Codes : c \in Hosts /\ CreateRoom(c, TRUE, code)
        \/ c \in Guests /\ JoinRoom(c, TRUE)
        \/ \E index \in OnlineCells : HandleClick(c, index)
        \/ ResetGame(c)
        \/ resetScores(c)
        \/ \E i \in Slots :
              \/ CreateRoomDone(c, i, TRUE)
              \/ JoinRoomDone(c, i, TRUE)
              \/ UpdateDone(c, i, TRUE)

SpecUp == Init /\ [][NextUp]_vars

\* one client on its own, in either mode, clicking any cell: whole games
Solo == "p1"

NextSolo ==
    \/ \E mode \in {"local", "online"} : SetGameMode(Solo, mode)
    \/ \E user \in BOOLEAN, code \in Codes : CreateRoom(Solo, user, code)
    \/ \E index \in Cells : HandleClick(Solo, index)
    \/ ResetGame(Solo)
    \/ resetScores(Solo)
    \/ \E i \in Slots, reachable \in BOOLEAN :
          \/ CreateRoomDone(Solo, i, reachable)
          \/ UpdateDone(Solo, i, reachable)

SpecSolo == Init /\ [][NextSolo]_vars

\* the rules on their own: handleClick, and with it checkWinner, applied in
\* local mode to every board of 9 cells with either mark to move
InitRules ==
    /\ gameMode = [c \in Clients |-> IF c = Solo THEN "local" ELSE Null]
    /\ \E b \in Boards : board = [c \in Clients |-> IF c = Solo THEN b ELSE EmptyBoard]
    /\ \E p \in Player : currentPlayer = [c \in Clients |-> IF c = Solo THEN p ELSE "X"]
    /\ winner = [c \in Clients |-> Null]
    /\ moveCount = [c \in Clients |-> 0]
    /\ players = [c \in Clients |-> [X |-> 0, O |-> 0]]
    /\ gameHistory = [c \in Clients |-> <<>>]
    /\ onlineGame = [c \in Clients |-> NullGame]
    /\ joinCode = [c \in Clients |-> ""]
    /\ authUid = [c \in Clients |-> NoUser]
    /\ calls = [c \in Clients |-> <<>>]
    /\ rooms = <<>>
    /\ users = [c \in Clients |-> 0]

NextRules == \E index \in Cells : moveCount[Solo] = 0 /\ HandleClick(Solo, index)

SpecRules == InitRules /\ [][NextRules]_vars

\* the payloads of 'game_update' broadcasts that reach a subscribed session
Payloads ==
    [board : {EmptyBoard, [EmptyBoard EXCEPT ![0] = "X", ![4] = "O"]},
     currentPlayer : Player,
     winner : {Null, "O"}]

\* a host whose room channel carries 'game_update' broadcasts.  The program
\* sends none: they come from another party on the channel room:<code>.
NextRemote ==
    \/ SetGameMode(Solo, "online")
    \/ \E code \in Codes : CreateRoom(Solo, TRUE, code)
    \/ \E index \in OnlineCells : moveCount[Solo] < MaxMoves /\ HandleClick(Solo, index)
    \/ ResetGame(Solo)
    \/ \E payload \in Payloads : game_update(Solo, payload)
    \/ \E i \in Slots :
          \/ CreateRoomDone(Solo, i, TRUE)
          \/ UpdateDone(Solo, i, TRUE)

SpecRemote == Init /\ [][NextRemote]_vars

-----------------------------------------------------------------------------
(* Properties *)

\* no room-store call is awaited by anyone
Quiet == \A c \in Clients : calls[c] = <<>>

\* the step answers call i of client c
Answers(c, i) == i \in DOMAIN calls[c] /\ calls'[c] = RemoveAt(calls[c], i)

\* client h is connected to room r as its host
HostOf(h, r) ==
    /\ gameMode[h] = "online"
    /\ onlineGame[h].connected
    /\ onlineGame[h].isHost
    /\ onlineGame[h].roomCode = r

\* joinRoom of client d on the code r has run to its end
JoinedWith(d, r) ==
    /\ gameMode[d] = "online"
    /\ joinCode[d] = r
    /\ ~onlineGame[d].isNull
    /\ calls[d] = <<>>

\* a row is Waiting with no guest
Open(row) == row.status = "waiting" /\ row.guest_id = NoUser

\* C1: of two joinRoom calls made concurrently on a Waiting room by two clients
\* that are not its host, the first the store handles succeeds (the room gets
\* that caller as guest and status playing, the caller's session is connected
\* as guest), and a join handled once the room has a guest fails and leaves
\* the room as it is.
JoinExclusivity ==
    [][\A c \in Clients : \A i \in Slots :
          (/\ Answers(c, i)
           /\ calls[c][i].kind = "join"
           /\ calls[c][i].code \in DOMAIN rooms)
          => LET call == calls[c][i]
                 r == call.code
             IN  /\ (/\ Open(rooms[r])
                     /\ \E d \in Clients \ {c} : \E j \in DOMAIN calls[d] :
                            calls[d][j].kind = "join" /\ calls[d][j].code = r)
                    => /\ rooms'[r].guest_id = call.uid
                       /\ rooms'[r].status = "playing"
                       /\ onlineGame'[c] = Connected(r, FALSE, call.uid)
                 /\ rooms[r].guest_id # NoUser
                    => /\ rooms' = rooms
                       /\ ~onlineGame'[c].connected
                       /\ onlineGame'[c].errorMessage # Null]_vars

\* C2: once every write has been handled, the host of a room and the client
\* that joined it hold the room's board, turn and outcome.
Convergence ==
    \A r \in DOMAIN rooms : \A d \in Clients :
        (Quiet /\ (HostOf(d, r) \/ JoinedWith(d, r)))
        => /\ board[d] = rooms[r].board
           /\ currentPlayer[d] = rooms[r].current_player
           /\ winner[d] = rooms[r].winner

\* C3: when a host has created a room and one client has joined it with the
\* room's code, the room is playing with that client as its guest, the
\* client's session is connected to the room as guest, and the host is in
\* the game view.
JoinObserved ==
    \A r \in DOMAIN rooms : \A h, d \in Clients :
        (/\ HostOf(h, r)
         /\ JoinedWith(d, r)
         /\ \A e \in Clients \ {d} : joinCode[e] # r)
        => /\ rooms[r].status = "playing"
           /\ rooms[r].guest_id = onlineGame[d].playerId
           /\ rooms[r].guest_id # NoUser
           /\ onlineGame[d] = Connected(r, FALSE, onlineGame[d].playerId)
           /\ GameView(h)
           /\ GameView(d)

\* the step fills a cell of client c's board
Marks(c) == \E i \in Cells : board[c][i] = Null /\ board'[c][i] # Null

\* the step sends a move of client c to the room
SendsMove(c) ==
    /\ Len(calls'[c]) = Len(calls[c]) + 1
    /\ calls'[c][Len(calls'[c])].kind = "move"

\* C4: in online mode, while the turn is not the session's mark (host X,
\* guest O) or an outcome is set, no step fills a cell of the session's board,
\* passes the turn, sets an outcome or sends a move to the room; and every
\* mark a session places is its own mark.
TurnArbitration ==
    [][\A c \in Clients :
          gameMode[c] = "online"
          => /\ (currentPlayer[c] # Mark(c) \/ winner[c] # Null)
                => /\ ~Marks(c)
                   /\ ~SendsMove(c)
                   /\ \/ /\ board'[c] = board[c]
                         /\ currentPlayer'[c] = currentPlayer[c]
                         /\ winner'[c] = winner[c]
                         /\ moveCount'[c] = moveCount[c]
                      \/ /\ board'[c] = EmptyBoard
                         /\ currentPlayer'[c] = "X"
                         /\ winner'[c] = Null
                         /\ moveCount'[c] = 0
             /\ \A i \in Cells :
                   (board[c][i] = Null /\ board'[c][i] # Null)
                   => board'[c][i] = Mark(c)]_vars

\* C4 witness: a connected host has moved and it is not its turn
OutOfTurn ==
    \E c \in Clients :
        /\ HostOf(c, onlineGame[c].roomCode)
        /\ GameView(c)
        /\ currentPlayer[c] # Mark(c)
        /\ \E i, j \in Cells : board[c][i] = "X" /\ board[c][j] = Null

\* C5: while a room is Waiting its board is empty, and so is its host's.
NoMoveWhileWaiting ==
    \A r \in DOMAIN rooms :
        rooms[r].status = "waiting"
        => /\ rooms[r].board = EmptyBoard
           /\ \A h \in Clients : HostOf(h, r) => board[h] = EmptyBoard

\* C6: a room has a guest if and only if its status is not waiting.
GuestIffNotWaiting ==
    \A r \in DOMAIN rooms :
        (rooms[r].guest_id # NoUser) <=> (rooms[r].status # "waiting")

\* computeOutcome of the specification, as a relation: Win(m) for a mark m
\* that holds a line, else Draw on a full board, else None
IsOutcome(b, outcome) ==
    LET winners == {m \in Player : \E k \in DOMAIN winningCombinations :
                        \A n \in 1 .. 3 : b[winningCombinations[k][n]] = m}
    IN  IF winners # {} THEN outcome \in winners
        ELSE IF \A i \in Cells : b[i] # Null THEN outcome = "Draw"
        ELSE outcome = Null

ErrorsRetryable ==
    \A c \in Clients :
        (/\ gameMode[c] = "online"
         /\ onlineGame[c].errorMessage # Null
         /\ ~onlineGame[c].connected)
        => SetupButtons(c)

\* C9: when a room-store call ends without the store having taken the
\* change it carries, the session's errorMessage is set.
StoreFailureSurfaced ==
    [][\A c \in Clients : \A i \in Slots :
          (/\ Answers(c, i)
           /\ Handled(calls[c][i]) # rooms
           /\ rooms' = rooms)
          => onlineGame'[c].errorMessage # Null]_vars

\* C10: an update whose caller is neither the host nor the guest of the row
\* it names leaves the row as it is.
NonMemberCannotUpdate ==
    [][\A c \in Clients : \A i \in Slots :
          (/\ Answers(c, i)
           /\ calls[c][i].kind # "create"
           /\ calls[c][i].code \in DOMAIN rooms
           /\ calls[c][i].uid # rooms[calls[c][i].code].host_id
           /\ calls[c][i].uid # rooms[calls[c][i].code].guest_id)
          => rooms'[calls[c][i].code] = rooms[calls[c][i].code]]_vars

\* C10 witness: a client with an identity of its own has had its join on an
\* existing room answered
JoinTurnedDown ==
    \E d \in Clients : \E r \in DOMAIN rooms :
        /\ JoinedWith(d, r)
        /\ users[d] > 0
        /\ authUid[d] # rooms[r].host_id
        /\ authUid[d] # rooms[r].guest_id
        /\ onlineGame[d].errorMessage = "Failed to join room"

\* C11: in a room a host has created and one client has joined, once the
\* host's opening move on cell 0 has been written to the room, the client
\* that joined is in the game view with the mark O and its move on cell 1 is
\* accepted (the first two moves of the sequence host 0, guest 1, host 4,
\* guest 2, host 8 that ends with Win(X) and a finished room).
WinScenario ==
    \A r \in DOMAIN rooms : \A h, d \in Clients :
        (/\ HostOf(h, r)
         /\ JoinedWith(d, r)
         /\ \A e \in Clients \ {d} : joinCode[e] # r
         /\ Quiet
         /\ board[h] = [EmptyBoard EXCEPT ![0] = "X"]
         /\ rooms[r].board = board[h])
        => /\ GameView(d)
           /\ Mark(d) = "O"
           /\ ClickAllowed(d, 1)

\* mark m holds the three cells of line k of board b
HoldsLine(b, m, k) == \A n \in 1 .. 3 : b[winningCombinations[k][n]] = m

\* no line of board b is held by a mark
NoLine(b) == \A m \in Player : \A k \in DOMAIN winningCombinations : ~HoldsLine(b, m, k)

Full(b) == \A i \in Cells : b[i] # Null

\* C12: for each of the 8 lines and each mark m, a move that leaves a board
\* where m holds that line and the other mark holds no line gives the outcome
\* m, whether or not the board is full.
WinDetected ==
    [][\A m \in Player : \A k \in DOMAIN winningCombinations :
          (/\ Marks(Solo)
           /\ HoldsLine(board'[Solo], m, k)
           /\ \A j \in DOMAIN winningCombinations :
                 ~HoldsLine(board'[Solo], nextPlayer(m), j))
          => winner'[Solo] = m]_vars

\* C12 witness: a move has filled the last cell of a board and won
FullBoardWin ==
    /\ moveCount[Solo] = 1
    /\ Full(board[Solo])
    /\ winner[Solo] \in Player
    /\ \E k \in {7, 8} : HoldsLine(board[Solo], winner[Solo], k)

\* C16: a move gives the outcome Draw exactly when it leaves a full board
\* with no line held, and no outcome exactly when it leaves a board with an
\* empty cell and no line held.
DrawDetected ==
    [][Marks(Solo)
       => /\ winner'[Solo] = "Draw" <=> (Full(board'[Solo]) /\ NoLine(board'[Solo]))
          /\ winner'[Solo] = Null <=> (~Full(board'[Solo]) /\ NoLine(board'[Solo]))]_vars

\* C16 witness: a move has filled the last cell of a board and drawn
DrawnGame ==
    /\ moveCount[Solo] = 1
    /\ Full(board[Solo])
    /\ NoLine(board[Solo])
    /\ winner[Solo] = "Draw"
    /\ gameHistory[Solo] = <<"Draw">>

\* the step clears the game of client c (New Game)
Clears(c) ==
    /\ board'[c] = EmptyBoard
    /\ currentPlayer'[c] = "X"
    /\ winner'[c] = Null
    /\ moveCount'[c] = 0

\* the step leaves the game of client c as it is
GameKept(c) ==
    /\ board'[c] = board[c]
    /\ currentPlayer'[c] = currentPlayer[c]
    /\ winner'[c] = winner[c]
    /\ moveCount'[c] = moveCount[c]

\* the step leaves the record of client c as it is, or clears it (Reset Scores)
RecordKept(c) ==
    /\ players'[c] \in {players[c], [X |-> 0, O |-> 0]}
    /\ gameHistory'[c] \in {gameHistory[c], <<>>}

Count(b, m) == Cardinality({i \in Cells : b[i] = m})

\* C14: in local mode the board holds as many X as O, or one X more; while
\* the game is open the turn is X in the first case and O in the second, and
\* the move count is the number of marks: the marks placed since the board
\* was last empty are X, O, X, O, ...
TurnAlternation ==
    \A c \in Clients :
        gameMode[c] = "local"
        => LET d == Count(board[c], "X") - Count(board[c], "O")
           IN  /\ d \in {0, 1}
               /\ winner[c] = Null => currentPlayer[c] = (IF d = 0 THEN "X" ELSE "O")
               /\ moveCount[c] = Count(board[c], "X") + Count(board[c], "O")

\* C14 witness: a local game played after a New Game has three marks on the
\* board and O to move
ThreeMarks ==
    \E c \in Clients :
        /\ gameMode[c] = "local"
        /\ Len(gameHistory[c]) > 0
        /\ winner[c] = Null
        /\ Count(board[c], "X") = 2
        /\ Count(board[c], "O") = 1
        /\ currentPlayer[c] = "O"

\* C15: a room is finished if and only if its winner is set; and every move
\* or reset write on its way to the store sets neither column or both, with
\* status finished exactly for a winner.
RoomStatusOutcome ==
    /\ \A r \in DOMAIN rooms :
          rooms[r].status = "finished" <=> rooms[r].winner # Null
    /\ \A c \in Clients : \A i \in DOMAIN calls[c] :
          calls[c][i].kind \in {"move", "reset"}
          => LET patch == calls[c][i].patch
             IN  IF "status" \in DOMAIN patch
                 THEN /\ "winner" \in DOMAIN patch
                      /\ patch.status = "finished" <=> patch.winner # Null
                 ELSE "winner" \notin DOMAIN patch

\* C15 witness: a room has taken a reset write and a move write
RoomReplayed ==
    \E r \in DOMAIN rooms :
        /\ rooms[r].status = "playing"
        /\ rooms[r].board # EmptyBoard
        /\ rooms[r].current_player = "O"

\* the sessions connected to room r as its guest
GuestSessions(r) ==
    {d \in Clients : /\ onlineGame[d].connected
                     /\ ~onlineGame[d].isHost
                     /\ onlineGame[d].roomCode = r}

\* C17: at most one session is ever connected to a room as its guest; no
\* step removes a room, changes a guest that is set, or takes a room that has
\* left waiting back to waiting.
OneGuestEver ==
    [][\A r \in DOMAIN rooms :
          /\ Cardinality(GuestSessions(r)) <= 1
          /\ Cardinality(GuestSessions(r)') <= 1
          /\ r \in DOMAIN rooms'
          /\ rooms[r].guest_id # NoUser => rooms'[r].guest_id = rooms[r].guest_id
          /\ rooms[r].status # "waiting" => rooms'[r].status # "waiting"]_vars

\* C17 witness: two clients have had their joins answered on a room that a
\* reset has taken out of waiting
JoinsAfterReset ==
    \E r \in DOMAIN rooms : \E d, e \in Clients :
        /\ d # e
        /\ JoinedWith(d, r)
        /\ JoinedWith(e, r)
        /\ users[d] > 0
        /\ users[e] > 0
        /\ rooms[r].status = "playing"

\* the step is the store's handling of a reset write
ResetHandled ==
    \E c \in Clients : \E i \in DOMAIN calls[c] :
        Answers(c, i) /\ calls[c][i].kind = "reset"

\* C18: a taken cell of a client's board keeps its mark in every step that
\* does not clear the client's game, and a taken cell of a room's board keeps
\* its mark in every step that is not the handling of a reset write.
BoardMonotone ==
    [][/\ \A c \in Clients : \A i \in Cells :
             board[c][i] # Null => (board'[c][i] = board[c][i] \/ Clears(c))
       /\ \A r \in DOMAIN rooms : \A i \in Cells :
             rooms[r].board[i] # Null
             => (rooms'[r].board[i] = rooms[r].board[i] \/ ResetHandled)]_vars

\* the step sends a reset of client c to the room
SendsReset(c) ==
    /\ Len(calls'[c]) = Len(calls[c]) + 1
    /\ calls'[c][Len(calls'[c])].kind = "reset"

\* a row after a reset: empty board, turn X, no winner, playing; host and
\* guest as they were
ResetRow(row) ==
    [host_id |-> row.host_id, guest_id |-> row.guest_id, board |-> EmptyBoard,
     current_player |-> "X", winner |-> Null, status |-> "playing"]

\* C19: a step that empties a taken cell of a client's board (New Game) leaves
\* the board empty, the turn X and no outcome, keeps the scores and the
\* history, and in online mode with a room sends a reset to the room; a step
\* that sends a reset does all of that and names the session's room; and the
\* store's handling of a reset sent by the host or the guest of an existing
\* room leaves that row with an empty board, turn X, no winner, status
\* playing and its host and guest as they were, under the same code.
ResetEffect ==
    [][\A c \in Clients :
          /\ ((\E i \in Cells : board[c][i] # Null /\ board'[c][i] = Null)
              \/ SendsReset(c))
             => /\ Clears(c)
                /\ players'[c] = players[c]
                /\ gameHistory'[c] = gameHistory[c]
                /\ WritesRoom(c)
                   => /\ SendsReset(c)
                      /\ calls'[c][Len(calls'[c])].code = onlineGame[c].roomCode
                /\ rooms' = rooms
          /\ \A i \in DOMAIN calls[c] :
                LET call == calls[c][i]
                IN  (/\ call.kind = "reset"
                     /\ call.code \in DOMAIN rooms
                     /\ call.uid \in {rooms[call.code].host_id, rooms[call.code].guest_id})
                    => /\ Handled(call) =
                              [rooms EXCEPT ![call.code] = ResetRow(@)]
                       /\ Answers(c, i) => rooms' \in {rooms, Handled(call)}]_vars

\* C19 witness: a host has pressed New Game and the room has taken the reset
RoomReset ==
    \E c \in Clients : \E r \in DOMAIN rooms :
        /\ HostOf(c, r)
        /\ calls[c] = <<>>
        /\ board[c] = EmptyBoard
        /\ moveCount[c] = 0
        /\ rooms[r] = ResetRow(rooms[r])
        /\ rooms[r].host_id = authUid[c]

\* the identities held by the rows of the table
Members == {rooms[r].host_id : r \in DOMAIN rooms} \cup {rooms[r].guest_id : r \in DOMAIN rooms}

\* C20: when a createRoom call ends with its session connected and no error,
\* the step has added one row under a code that was not in the table, with
\* status waiting, no guest, no winner, an empty board, turn X and as host
\* the identity the call was given, which no row held before; and the
\* session holds that code, the role host and that identity.
CreateRoomResult ==
    [][\A c \in Clients : \A i \in DOMAIN calls[c] :
          (/\ Answers(c, i)
           /\ calls[c][i].kind = "create"
           /\ onlineGame'[c].connected
           /\ onlineGame'[c].errorMessage = Null)
          => LET call == calls[c][i]
             IN  /\ call.code \notin DOMAIN rooms
                 /\ DOMAIN rooms' = DOMAIN rooms \cup {call.code}
                 /\ \A r \in DOMAIN rooms : rooms'[r] = rooms[r]
                 /\ rooms'[call.code] =
                        [host_id |-> call.uid, guest_id |-> NoUser,
                         board |-> EmptyBoard, current_player |-> "X",
                         winner |-> Null, status |-> "waiting"]
                 /\ call.uid # NoUser
                 /\ call.uid \notin Members
                 /\ \A d \in Clients \ {c} : authUid[d] # call.uid
                 /\ onlineGame'[c] = Connected(call.code, TRUE, call.uid)]_vars

\* C20 witness: a session is connected as host to the room it has created,
\* which is still as created
RoomCreated ==
    \E c \in Clients : \E r \in DOMAIN rooms :
        /\ HostOf(c, r)
        /\ onlineGame[c].errorMessage = Null
        /\ onlineGame[c].playerId = rooms[r].host_id
        /\ rooms[r].status = "waiting"
        /\ rooms[r].board = EmptyBoard
        /\ moveCount[c] = 0

\* the status that goes with an outcome: finished for a win or a draw,
\* playing for a game that is open
StatusOf(outcome) == IF outcome # Null THEN "finished" ELSE "playing"

\* C21: when the store takes the move write of a session that has no other
\* call in flight and whose board is still the board it wrote, the room's
\* board, turn, winner and status are the session's board, turn and outcome
\* and the status that goes with the outcome, whatever the row held before.
FullSnapshotWrite ==
    [][\A c \in Clients :
          (/\ Len(calls[c]) = 1
           /\ Answers(c, 1)
           /\ calls[c][1].kind = "move"
           /\ calls[c][1].patch.board = board[c]
           /\ Matches(calls[c][1])
           /\ rooms' = Handled(calls[c][1]))
          => LET row == rooms'[calls[c][1].code]
             IN  /\ row.board = board[c]
                 /\ row.current_player = currentPlayer[c]
                 /\ row.winner = winner[c]
                 /\ row.status = StatusOf(winner[c])]_vars

\* the board, turn and outcome of client c are those of the payload
Holds(c, payload) ==
    /\ board[c] = payload.board
    /\ currentPlayer[c] = payload.currentPlayer
    /\ winner[c] = payload.winner

\* C22: a step that changes the board, turn or outcome of a session with a
\* room without sending a write is the handling of an update: it leaves the
\* board, the turn and the outcome of one payload, whatever they were before,
\* and changes nothing else of the session (room code, role, connection,
\* scores, history, move count) nor the room; so handling the same update
\* again leaves the state as it is.
SnapshotUpdate ==
    [][\A c \in Clients :
          (/\ WritesRoom(c)
           /\ calls'[c] = calls[c]
           /\ <<board'[c], currentPlayer'[c], winner'[c]>>
                 # <<board[c], currentPlayer[c], winner[c]>>)
          => /\ \E payload \in Payloads : Holds(c, payload)'
             /\ onlineGame'[c] = onlineGame[c]
             /\ gameMode'[c] = gameMode[c]
             /\ joinCode'[c] = joinCode[c]
             /\ players'[c] = players[c]
             /\ gameHistory'[c] = gameHistory[c]
             /\ moveCount'[c] = moveCount[c]
             /\ rooms' = rooms]_vars

\* C22 witness: a host that has placed a mark holds the board, turn and
\* outcome of an update with an empty board and a winner
UpdateHandled ==
    /\ HostOf(Solo, onlineGame[Solo].roomCode)
    /\ moveCount[Solo] > 0
    /\ Holds(Solo, [board |-> EmptyBoard, currentPlayer |-> "O", winner |-> "O"])

\* the game of client c, in local mode, is within 9 moves and over when the
\* board is full
Within9(c) ==
    gameMode[c] = "local"
    => /\ moveCount[c] <= 9
       /\ moveCount[c] = Count(board[c], "X") + Count(board[c], "O")
       /\ Full(board[c]) => winner[c] # Null
       /\ moveCount[c] = 9 => winner[c] # Null

\* C23: in local mode a game counts at most 9 moves, each of them a mark on
\* the board, a full board has an outcome, and while an outcome is set no
\* step places a mark or counts a move: the game stays as it is until it is
\* cleared.
GameEnds ==
    [][\A c \in Clients :
          /\ Within9(c)
          /\ Within9(c)'
          /\ (gameMode[c] = "local" /\ winner[c] # Null)
             => /\ ~Marks(c)
                /\ GameKept(c) \/ Clears(c)]_vars

\* C23 witness: a local game has taken all 9 moves
NineMoves ==
    \E c \in Clients :
        /\ gameMode[c] = "local"
        /\ moveCount[c] = 9
        /\ Full(board[c])
        /\ winner[c] # Null

\* the number of entries of history h won by m
Won(h, m) == Cardinality({n \in DOMAIN h : h[n] = m})

\* the scores of client c are the wins on its history
ScoresMatch(c) == \A m \in Player : players[c][m] = Won(gameHistory[c], m)

\* C24: on every client the score of each mark is the number of history
\* entries it has won; a step that sets an outcome appends that outcome, and
\* nothing else, to the history, adds 1 to the winner's score alone for a
\* win and changes no score for a draw; every other step that changes the
\* scores or the history sets both scores to 0 and empties the history, and
\* leaves board, turn, outcome and move count as they are.
ScoreHistory ==
    [][\A c \in Clients :
          /\ ScoresMatch(c)
          /\ ScoresMatch(c)'
          /\ IF winner[c] = Null /\ winner'[c] # Null
             THEN /\ gameHistory'[c] = Append(gameHistory[c], winner'[c])
                  /\ \A m \in Player :
                        players'[c][m] =
                            players[c][m] + (IF m = winner'[c] THEN 1 ELSE 0)
             ELSE \/ /\ players'[c] = players[c]
                     /\ gameHistory'[c] = gameHistory[c]
                  \/ /\ players'[c] = [X |-> 0, O |-> 0]
                     /\ gameHistory'[c] = <<>>
                     /\ GameKept(c)]_vars

\* C24 witness: a client has a win and a draw on its history
WinAndDraw ==
    \E c \in Clients :
        /\ Won(gameHistory[c], "Draw") = 1
        /\ \E m \in Player : Won(gameHistory[c], m) = 1 /\ players[c][m] = 1

====
